---- MODULE Spec2Model ----
(***************************************************************************)
(* Model of data_steward/vocabulary.py: date normalisation of OMOP         *)
(* vocabulary files (format_date_str, _transform_csv, transform_file,      *)
(* transform_files) and the AoU augmentation of the vocabulary and concept *)
(* files (append_vocabulary, append_concepts, add_aou_vocabs).             *)
(*                                                                         *)
(* Text is modelled as a sequence of one-character strings, so that regex  *)
(* matching, slicing, substring search and line splitting are computed the *)
(* way the Python code computes them.                                      *)
(***************************************************************************)
EXTENDS Integers, Sequences, FiniteSets, TLC

VARIABLES
    \* format_date_str
    date_str, date_res, date_pc,
    \* _transform_csv
    csv_header, csv_date_indexes, csv_in, csv_out, csv_err, csv_pc,
    \* the fingerprint of the AoU resource directory, as hash_dir gives it
    aou_version,
    \* append_vocabulary: the file at in_path, and the calls made so far
    voc_file, voc_runs,
    \* append_concepts
    con_in, con_resource, con_out, con_block_start, con_pc,
    \* add_aou_vocabs
    in_dir, out_dir, aou_calls, aou_result, aou_pc,
    \* transform_files and transform_file: the listing of in_dir, the state of
    \* out_dir, the position in the loop and in the body of transform_file,
    \* the open file objects, the files opened so far, what os.makedirs did
    \* for the current entry, the files under out_dir, the exception that
    \* left transform_files
    job_listing, job_errors_dir, job_writable, job_idx, job_pc, job_handles,
    job_opened, job_mkdir, job_files, job_exc

dateVars == <<date_str, date_res, date_pc>>
csvVars == <<csv_header, csv_date_indexes, csv_in, csv_out, csv_err, csv_pc>>
vocVars == <<voc_file, voc_runs>>
conVars == <<con_in, con_resource, con_out, con_block_start, con_pc>>
addVars == <<in_dir, out_dir, aou_calls, aou_result, aou_pc>>
augVars == <<aou_version, vocVars, conVars, addVars>>
jobVars == <<job_listing, job_errors_dir, job_writable, job_idx, job_pc, job_handles,
             job_opened, job_mkdir, job_files, job_exc>>
vars == <<dateVars, csvVars, augVars, jobVars>>

(***************************************************************************)
(* Bounds of the model.                                                    *)
(***************************************************************************)
\* longest arbitrary string tried as a date
MaxShort == 2
\* longest suffix put after a well-formed date
MaxTail == 1
\* number of data records of one csv stream
MaxRows == 2
\* number of pieces an input vocabulary or concept file is made of
MaxPieces == 4
\* number of successive append_vocabulary calls
MaxRuns == 2
\* number of entries of the directory given to add_aou_vocabs
MaxEntries == 3
\* number of entries of the directory given to transform_files
MaxFiles == 2

(***************************************************************************)
(* Text helpers.                                                           *)
(***************************************************************************)
NoValue == <<>>

\* all sequences over S of length at most n
SeqsUpTo(S, n) == UNION {[1..k -> S] : k \in 0..n}

\* s[a:b] of Python on a 0-based half-open range, clipped to the string
Slice(s, a, b) == SubSeq(s, a + 1, IF b > Len(s) THEN Len(s) ELSE b)

\* x in s for strings: x occurs in s as a contiguous substring
Contains(s, x) ==
    \E i \in 0..(Len(s) - Len(x)) : SubSeq(s, i + 1, i + Len(x)) = x

\* s.endswith(x)
EndsWith(s, x) ==
    /\ Len(s) >= Len(x)
    /\ SubSeq(s, Len(s) - Len(x) + 1, Len(s)) = x

RECURSIVE Join(_, _)
\* sep.join(parts)
Join(sep, parts) ==
    IF Len(parts) = 0 THEN <<>>
    ELSE IF Len(parts) = 1 THEN parts[1]
    ELSE parts[1] \o sep \o Join(sep, Tail(parts))

(***************************************************************************)
(* format_date_str                                                         *)
(***************************************************************************)
Digit == {"0", "1", "2", "3", "4", "5", "6", "7", "8", "9"}

\* the end-of-pattern anchor of re: at the end of the string, or just before
\* a newline that is the last character of the string
DollarAt(s, n) == Len(s) = n \/ (Len(s) = n + 1 /\ s[n + 1] = "\n")

\* RAW_DATE_PATTERN.match(s), the pattern being \d{8}$
RAW_DATE_PATTERN(s) ==
    /\ Len(s) >= 8
    /\ \A i \in 1..8 : s[i] \in Digit
    /\ DollarAt(s, 8)

\* BQ_DATE_PATTERN.match(s), the pattern being \d{4}-\d{2}-\d{2}$
BQ_DATE_PATTERN(s) ==
    /\ Len(s) >= 10
    /\ \A i \in {1, 2, 3, 4, 6, 7, 9, 10} : s[i] \in Digit
    /\ s[5] = "-"
    /\ s[8] = "-"
    /\ DollarAt(s, 10)

\* the returned string, or the ValueError with the value it carries
format_date_str(s) ==
    IF BQ_DATE_PATTERN(s)
    THEN [ok |-> TRUE, value |-> s]
    ELSE IF RAW_DATE_PATTERN(s)
    THEN [ok |-> TRUE,
          value |-> Join(<<"-">>, <<Slice(s, 0, 4), Slice(s, 4, 6), Slice(s, 6, 8)>>)]
    ELSE [ok |-> FALSE, value |-> s]

\* the strings tried as dates
DateDigits == {"0", "7"}
DateChars == DateDigits \cup {"-", "/", "\n"}
DateSeparators == {"-", "/"}
DateInputs ==
    SeqsUpTo(DateChars, MaxShort)
    \cup {d \o t : d \in [1..7 -> DateDigits] \cup [1..8 -> DateDigits],
                   t \in SeqsUpTo(DateChars, MaxTail)}
    \cup {SubSeq(d, 1, 4) \o <<a>> \o SubSeq(d, 5, 6) \o <<b>> \o SubSeq(d, 7, 8) \o t :
              d \in [1..8 -> DateDigits], a \in DateSeparators, b \in DateSeparators,
              t \in SeqsUpTo(DateChars, MaxTail)}

DateIdle ==
    /\ date_str = NoValue
    /\ date_res = NoValue
    /\ date_pc = "idle"

DateInit ==
    /\ date_str \in DateInputs
    /\ date_res = NoValue
    /\ date_pc = "call"

FormatDate ==
    /\ date_pc = "call"
    /\ date_res' = format_date_str(date_str)
    /\ date_pc' = "returned"
    /\ UNCHANGED date_str
    /\ UNCHANGED <<csvVars, augVars, jobVars>>

(***************************************************************************)
(* _transform_csv, on parsed records: a record is a sequence of fields, a  *)
(* field a string.                                                         *)
(***************************************************************************)
DATE_SUFFIX == <<"_", "d", "a", "t", "e">>

FieldId == <<"i", "d">>
FieldStartDate == <<"s">> \o DATE_SUFFIX
FieldEndDate == <<"e">> \o DATE_SUFFIX
FieldDateOf == DATE_SUFFIX \o <<"s">>

Headers ==
    { <<FieldStartDate>>,
      <<FieldId, FieldStartDate>>,
      <<FieldStartDate, FieldEndDate>>,
      <<FieldStartDate, FieldId>>,
      <<FieldId, FieldDateOf>> }

RawDate == <<"2", "0", "2", "0", "0", "1", "3", "1">>
BqDate == <<"2", "0", "2", "0", "-", "0", "1", "-", "3", "1">>
SlashDate == <<"2", "0", "2", "0", "/", "0", "1", "/", "3", "1">>
FieldValues == {RawDate, BqDate, SlashDate, <<>>}

MaxOf(S) == CHOOSE n \in S : \A m \in S : m <= n
Rows == SeqsUpTo(FieldValues, MaxOf({Len(h) : h \in Headers}))

\* lines 48-51: the positions (1-based here) of the columns named *_date
DateIndexes(header) ==
    LET RECURSIVE From(_)
        From(k) ==
            IF k > Len(header) THEN <<>>
            ELSE IF EndsWith(header[k], DATE_SUFFIX) THEN <<k>> \o From(k + 1)
            ELSE From(k + 1)
    IN From(1)

RECURSIVE NormalizeFrom(_, _, _)
\* lines 58-59: the loop over date_indexes from its k-th element, which
\* assigns into the row as it goes and stops at the first exception
NormalizeFrom(row, idxs, k) ==
    IF k > Len(idxs) THEN [ok |-> TRUE, row |-> row, kind |-> "none", value |-> NoValue]
    ELSE LET i == idxs[k] IN
         IF i > Len(row)
         THEN [ok |-> FALSE, row |-> row, kind |-> "IndexError", value |-> NoValue]
         ELSE LET r == format_date_str(row[i]) IN
              IF r.ok
              THEN NormalizeFrom([row EXCEPT ![i] = r.value], idxs, k + 1)
              ELSE [ok |-> FALSE, row |-> row, kind |-> "ValueError", value |-> r.value]

\* the loop left after the first date column
TransformRowFirstOnly(row, idxs) ==
    NormalizeFrom(row, SubSeq(idxs, 1, IF Len(idxs) > 1 THEN 1 ELSE Len(idxs)), 1)

\* lines 57-63: the body of the loop for one record
TransformRow(row, idxs) == NormalizeFrom(row, idxs, 1)

\* line 60: what the output holds after the record
OutAfterRow(out, res) == IF res.ok THEN Append(out, res.row) ELSE out

\* an except clause that reports the ValueError only
ErrAfterRowValueErrorOnly(err, res) ==
    IF res.ok \/ res.kind = "IndexError" THEN err
    ELSE Append(err, [kind |-> res.kind, value |-> res.value, row |-> res.row])

\* lines 61-63: what the error stream holds after the record
ErrAfterRow(err, res) ==
    IF res.ok THEN err
    ELSE Append(err, [kind |-> res.kind, value |-> res.value, row |-> res.row])

CsvIdle ==
    /\ csv_header = NoValue
    /\ csv_date_indexes = NoValue
    /\ csv_in = <<>>
    /\ csv_out = <<>>
    /\ csv_err = <<>>
    /\ csv_pc = "idle"

CsvInit ==
    /\ csv_header \in Headers
    /\ csv_date_indexes = NoValue
    /\ csv_in = <<>>
    /\ csv_out = <<>>
    /\ csv_err = <<>>
    /\ csv_pc = "header"

\* lines 46-55: read the header, find the date columns, write the header
CsvHeader ==
    /\ csv_pc = "header"
    /\ csv_date_indexes' = DateIndexes(csv_header)
    /\ csv_out' = <<csv_header>>
    /\ csv_pc' = "rows"
    /\ UNCHANGED <<csv_header, csv_in, csv_err>>
    /\ UNCHANGED <<dateVars, augVars, jobVars>>

\* lines 56-63: one iteration of the loop, on the next record of the input
CsvRow ==
    /\ csv_pc = "rows"
    /\ Len(csv_in) < MaxRows
    /\ \E row \in Rows :
         LET res == TransformRow(row, csv_date_indexes) IN
         /\ csv_in' = Append(csv_in, row)
         /\ csv_out' = OutAfterRow(csv_out, res)
         /\ csv_err' = ErrAfterRow(csv_err, res)
    /\ UNCHANGED <<csv_header, csv_date_indexes, csv_pc>>
    /\ UNCHANGED <<dateVars, augVars, jobVars>>

\* line 56: the reader is exhausted
CsvEnd ==
    /\ csv_pc = "rows"
    /\ csv_pc' = "done"
    /\ UNCHANGED <<csv_header, csv_date_indexes, csv_in, csv_out, csv_err>>
    /\ UNCHANGED <<dateVars, augVars, jobVars>>

(***************************************************************************)
(* The AoU vocabulary rows and the search for a reserved vocabulary id.    *)
(***************************************************************************)
DELIMITER == <<"\t">>
NEWLINE == <<"\n">>

AOU_GEN_ID == <<"A", "o", "U", "_", "G", "e", "n", "e", "r", "a", "l">>
AOU_CUSTOM_ID == <<"A", "o", "U", "_", "C", "u", "s", "t", "o", "m">>

\* the keys of VOCABULARY_UPDATES, in the order the dictionary yields them
VOCABULARY_IDS == <<AOU_GEN_ID, AOU_CUSTOM_ID>>

\* VOCABULARY_UPDATES.get(vocab_id): vocabulary_id, vocabulary_name,
\* vocabulary_reference, vocabulary_version, vocabulary_concept_id
VOCABULARY_UPDATES(vocab_id) ==
    IF vocab_id = AOU_GEN_ID
    THEN <<AOU_GEN_ID, <<"g", "e", "n">>, <<"r", "e", "f">>, <<>>, <<"2", "0">>>>
    ELSE <<AOU_CUSTOM_ID, <<"c", "u", "s">>, <<"r", "e", "f">>, <<>>, <<"2", "1">>>>

\* the fingerprints hash_dir may give
Versions == {<<"h", "1">>, <<"h", "2">>}

\* get_aou_vocabulary_row, the version being what get_aou_vocab_version gives
get_aou_vocabulary_row(vocab_id, version) ==
    LET vocab_row == VOCABULARY_UPDATES(vocab_id) IN
    Join(DELIMITER, [vocab_row EXCEPT ![Len(vocab_row) - 1] = version])

RECURSIVE FirstMatch(_, _, _)
FirstMatch(ids, s, k) ==
    IF k > Len(ids) THEN NoValue
    ELSE IF Contains(s, ids[k]) THEN ids[k]
    ELSE FirstMatch(ids, s, k + 1)

\* a search that looks for the first vocabulary id only
_vocab_id_match_first_key(s) == FirstMatch(SubSeq(VOCABULARY_IDS, 1, 1), s, 1)

\* _vocab_id_match: the first vocabulary id found in the string, else None
_vocab_id_match(s) == FirstMatch(VOCABULARY_IDS, s, 1)

RECURSIVE Lines(_)
\* iteration over a text file: each line with its terminator, the last
\* line as it is
Lines(text) ==
    IF text = <<>> THEN <<>>
    ELSE IF \E i \in 1..Len(text) : text[i] = "\n"
    THEN LET i == CHOOSE j \in 1..Len(text) :
                     text[j] = "\n" /\ \A m \in 1..(j - 1) : text[m] # "\n"
         IN <<SubSeq(text, 1, i)>> \o Lines(SubSeq(text, i + 1, Len(text)))
    ELSE <<text>>

RECURSIVE Flatten(_)
\* the text that successive writes of the pieces leave in a file
Flatten(pieces) ==
    IF pieces = <<>> THEN <<>> ELSE Head(pieces) \o Flatten(Tail(pieces))

RECURSIVE CopyRows(_)
\* lines 149-158 and 190-198: copy the rows in which no vocabulary id is found
CopyRows(rows) ==
    IF rows = <<>> THEN <<>>
    ELSE (IF _vocab_id_match(Head(rows)) # NoValue THEN <<>> ELSE Head(rows))
         \o CopyRows(Tail(rows))

\* the content append_vocabulary leaves at out_path
append_vocabulary(text, version) ==
    LET aou_general_row == get_aou_vocabulary_row(AOU_GEN_ID, version)
        aou_custom_row == get_aou_vocabulary_row(AOU_CUSTOM_ID, version)
    IN CopyRows(Lines(text)) \o (aou_general_row \o NEWLINE) \o aou_custom_row

\* lines 171-174: the rows of the custom concept file that are appended
ConceptBlock(resource, has_header) ==
    IF has_header THEN Flatten(Tail(Lines(resource))) ELSE resource

\* the pieces input files are made of
AOU_PREFIX == <<"A", "o", "U", "_">>
FilePieces == {AOU_GEN_ID, AOU_CUSTOM_ID, AOU_PREFIX, <<"x">>, DELIMITER, NEWLINE}
FileTexts == {Flatten(p) : p \in SeqsUpTo(FilePieces, MaxPieces)}

\* custom concept files: with a header, without one, of a single row
ConceptRow1 == <<"1">> \o DELIMITER \o AOU_CUSTOM_ID \o NEWLINE
ConceptRow2 == <<"2">> \o DELIMITER \o AOU_CUSTOM_ID \o NEWLINE
ConceptHeader == <<"i", "d">> \o DELIMITER \o <<"v">> \o NEWLINE
ConceptResources ==
    { ConceptHeader \o ConceptRow1 \o ConceptRow2,
      ConceptRow1 \o ConceptRow2,
      ConceptRow1 }

VocIdle ==
    /\ voc_file = NoValue
    /\ voc_runs = <<>>

ConIdle ==
    /\ con_in = NoValue
    /\ con_resource = NoValue
    /\ con_out = NoValue
    /\ con_block_start = 0
    /\ con_pc = "idle"

AddIdle ==
    /\ in_dir = <<>>
    /\ out_dir = {}
    /\ aou_calls = <<>>
    /\ aou_result = "none"
    /\ aou_pc = "idle"

AugIdle ==
    /\ aou_version = NoValue
    /\ VocIdle
    /\ ConIdle
    /\ AddIdle

VocInit ==
    /\ aou_version \in Versions
    /\ voc_file \in FileTexts
    /\ voc_runs = <<>>

\* the AoU resource directory is edited between two calls
ChangeResources ==
    /\ Len(voc_runs) < MaxRuns
    /\ \E v \in Versions \ {aou_version} : aou_version' = v
    /\ UNCHANGED <<vocVars, conVars, addVars>>
    /\ UNCHANGED <<dateVars, csvVars, jobVars>>

\* append_vocabulary(in_path, out_path); the next call reads what this one wrote
AppendVocabulary ==
    /\ Len(voc_runs) < MaxRuns
    /\ LET out == append_vocabulary(voc_file, aou_version) IN
       /\ voc_runs' = Append(voc_runs,
                             [in |-> voc_file, out |-> out, version |-> aou_version])
       /\ voc_file' = out
    /\ UNCHANGED <<aou_version, conVars, addVars>>
    /\ UNCHANGED <<dateVars, csvVars, jobVars>>

ConInit ==
    /\ aou_version = NoValue
    /\ con_in \in FileTexts
    /\ con_resource \in ConceptResources
    /\ con_out = NoValue
    /\ con_block_start = 0
    /\ con_pc = "call"

\* append_concepts(in_path, out_path): the copy of the rows, then the custom
\* concept rows; the header test of csv.Sniffer is a heuristic of the
\* library, and may answer either way or raise csv.Error
AppendConcepts ==
    /\ con_pc = "call"
    /\ LET copied == CopyRows(Lines(con_in)) IN
       /\ con_block_start' = Len(copied)
       /\ \/ \E has_header \in BOOLEAN :
                /\ con_out' = copied \o ConceptBlock(con_resource, has_header)
                /\ con_pc' = "returned"
          \/ /\ con_out' = copied
             /\ con_pc' = "raised"
    /\ UNCHANGED <<con_in, con_resource>>
    /\ UNCHANGED <<aou_version, vocVars, addVars>>
    /\ UNCHANGED <<dateVars, csvVars, jobVars>>

(***************************************************************************)
(* add_aou_vocabs                                                          *)
(***************************************************************************)
CONCEPT == <<"c", "o", "n", "c", "e", "p", "t">>
VOCABULARY == <<"v", "o", "c", "a", "b", "u", "l", "a", "r", "y">>

UPPERCASE == <<"A", "B", "C", "D", "E", "F", "G", "H", "I", "J", "K", "L", "M",
               "N", "O", "P", "Q", "R", "S", "T", "U", "V", "W", "X", "Y", "Z">>
LOWERCASE == <<"a", "b", "c", "d", "e", "f", "g", "h", "i", "j", "k", "l", "m",
               "n", "o", "p", "q", "r", "s", "t", "u", "v", "w", "x", "y", "z">>

\* str.lower()
lower(s) ==
    [i \in 1..Len(s) |->
        IF \E k \in 1..Len(UPPERCASE) : UPPERCASE[k] = s[i]
        THEN LOWERCASE[CHOOSE k \in 1..Len(UPPERCASE) : UPPERCASE[k] = s[i]]
        ELSE s[i]]

\* os.path.splitext(p)[0] for a name without a directory part: the name up
\* to its last dot, unless only dots come before that dot
splitext_root(p) ==
    LET dots == {i \in 1..Len(p) : p[i] = "."} IN
    IF dots = {} THEN p
    ELSE LET dotIndex == MaxOf(dots) IN
         IF \E i \in 1..(dotIndex - 1) : p[i] # "."
         THEN SubSeq(p, 1, dotIndex - 1)
         ELSE p

\* line 218
table_name(file_name) == splitext_root(lower(file_name))

RECURSIVE LastNamed(_, _, _)
\* lines 217-223: the entry the loop leaves in a path variable, the last of
\* the listing whose table name is the one wanted; 0 stands for None
LastNamed(entries, wanted, k) ==
    IF k = 0 THEN 0
    ELSE IF table_name(entries[k].name) = wanted THEN k
    ELSE LastNamed(entries, wanted, k - 1)

\* a version that looks for the vocabulary file only after the concept file
\* has been written
add_aou_vocabs_late_check(entries, out, resource, version, sniffed) ==
    LET c == LastNamed(entries, CONCEPT, Len(entries))
        v == LastNamed(entries, VOCABULARY, Len(entries))
    IN
    IF c = 0
    THEN [result |-> "IOError", calls |-> <<>>, out |-> out]
    ELSE LET copied == CopyRows(Lines(entries[c].text))
             written(name, text) ==
                 {f \in out : f.name # name} \cup {[name |-> name, text |-> text]}
             concepts == written(entries[c].name,
                                 copied \o ConceptBlock(resource, sniffed = "header"))
         IN
         IF v = 0
         THEN [result |-> "IOError", calls |-> <<"append_concepts">>, out |-> concepts]
         ELSE [result |-> "ok",
               calls |-> <<"append_concepts", "append_vocabulary">>,
               out |-> {f \in concepts : f.name # entries[v].name}
                       \cup {[name |-> entries[v].name,
                              text |-> append_vocabulary(entries[v].text, version)]}]

\* add_aou_vocabs(in_dir, out_dir): how the call ends, the calls it made and
\* the files of out_dir after it; sniffed is the answer of csv.Sniffer
add_aou_vocabs(entries, out, resource, version, sniffed) ==
    LET c == LastNamed(entries, CONCEPT, Len(entries))
        v == LastNamed(entries, VOCABULARY, Len(entries))
        written(files, name, text) ==
            {f \in files : f.name # name} \cup {[name |-> name, text |-> text]}
    IN
    IF c = 0 \/ v = 0
    THEN [result |-> "IOError", calls |-> <<>>, out |-> out]
    ELSE LET copied == CopyRows(Lines(entries[c].text)) IN
         IF sniffed = "error"
         THEN [result |-> "csv.Error",
               calls |-> <<"append_concepts">>,
               out |-> written(out, entries[c].name, copied)]
         ELSE [result |-> "ok",
               calls |-> <<"append_concepts", "append_vocabulary">>,
               out |-> written(
                   written(out, entries[c].name,
                           copied \o ConceptBlock(resource, sniffed = "header")),
                   entries[v].name,
                   append_vocabulary(entries[v].text, version))]

ConceptUpperCsv == <<"C", "O", "N", "C", "E", "P", "T", ".", "c", "s", "v">>
ConceptTxt == CONCEPT \o <<".", "t", "x", "t">>
ConceptCsvBak == CONCEPT \o <<".", "c", "s", "v", ".", "b", "a", "k">>
DotConcept == <<".">> \o CONCEPT
VocabularyMixedCsv == <<"V", "o", "c", "a", "b", "u", "l", "a", "r", "y", ".", "C", "S", "V">>
VocabularyBare == VOCABULARY
EntryNames ==
    {ConceptUpperCsv, ConceptTxt, ConceptCsvBak, DotConcept, VocabularyMixedCsv,
     VocabularyBare}
EntryTexts == {AOU_GEN_ID \o NEWLINE \o <<"x">> \o NEWLINE \o <<"x">>}
Entries == [name : EntryNames, text : EntryTexts]

\* what os.listdir and the files it names may be: distinct names, any order
Listings ==
    {l \in SeqsUpTo(Entries, MaxEntries) :
        \A i, j \in 1..Len(l) : i # j => l[i].name # l[j].name}

SnifferAnswers == {"header", "no header", "error"}

AddInit ==
    /\ aou_version \in Versions
    /\ con_resource \in ConceptResources
    /\ in_dir \in Listings
    /\ out_dir = {}
    /\ aou_calls = <<>>
    /\ aou_result = "none"
    /\ aou_pc = "call"
    /\ con_in = NoValue
    /\ con_out = NoValue
    /\ con_block_start = 0
    /\ con_pc = "idle"

AddAouVocabs ==
    /\ aou_pc = "call"
    /\ \E sniffed \in SnifferAnswers :
         LET r == add_aou_vocabs(in_dir, out_dir, con_resource, aou_version, sniffed) IN
         /\ aou_result' = r.result
         /\ aou_calls' = r.calls
         /\ out_dir' = r.out
    /\ aou_pc' = "returned"
    /\ UNCHANGED <<in_dir, aou_version, vocVars, conVars>>
    /\ UNCHANGED <<dateVars, csvVars, jobVars>>

(***************************************************************************)
(* transform_file and transform_files                                      *)
(***************************************************************************)
RECURSIVE TransformRows(_, _, _, _)
\* lines 56-63: the loop over the records of the reader
TransformRows(rows, idxs, out, err) ==
    IF rows = <<>> THEN [out |-> out, err |-> err]
    ELSE LET res == TransformRow(Head(rows), idxs) IN
         TransformRows(Tail(rows), idxs, OutAfterRow(out, res), ErrAfterRow(err, res))

\* _transform_csv on a whole stream: what it writes to out_fp and to err_fp
_transform_csv(header, rows) ==
    TransformRows(rows, DateIndexes(header), <<header>>, <<>>)

\* the entries a directory may hold: csv files, one of them with a record
\* that does not normalize and a short record; an entry that cannot be opened
\* for reading; a file whose bytes stop decoding after some records
GoodCsv == [header |-> <<FieldId, FieldStartDate>>,
            rows |-> <<<<RawDate, RawDate>>>>]
MixedCsv == [header |-> <<FieldId, FieldStartDate>>,
             rows |-> <<<<BqDate, SlashDate>>, <<RawDate>>, <<SlashDate, BqDate>>>>]
JobEntries ==
    { [kind |-> "csv", data |-> GoodCsv],
      [kind |-> "csv", data |-> MixedCsv],
      [kind |-> "unreadable", data |-> GoodCsv],
      [kind |-> "undecodable", data |-> MixedCsv] }

AbsentFile == [exists |-> FALSE, rows |-> <<>>]
EmptyFile == [exists |-> TRUE, rows |-> <<>>]
JobFileKeys == {<<k, f>> : k \in 1..Len(job_listing), f \in {"out", "err"}}

\* line 79: os.makedirs(err_dir) on the state of out_dir: the exception it
\* raises, if any, and what is at err_dir afterwards
makedirs(errors_dir, writable) ==
    IF errors_dir = "absent"
    THEN IF writable
         THEN [raised |-> "none", errors_dir |-> "dir"]
         ELSE [raised |-> "PermissionError", errors_dir |-> "absent"]
    ELSE [raised |-> "FileExistsError", errors_dir |-> errors_dir]

\* lines 78-81: every OSError of os.makedirs is logged and dropped
AfterMakedirs(raised, errors_dir) == "open_in"

\* file objects left open by opening the files without a with statement
ExitWithLeak(handles) == handles

\* lines 83-87: the with statement closes the file objects it has opened
\* when an exception leaves it
ExitWith(handles) == {}

JobIdle ==
    /\ job_listing = <<>>
    /\ job_errors_dir = "absent"
    /\ job_writable = TRUE
    /\ job_idx = 0
    /\ job_pc = "idle"
    /\ job_handles = {}
    /\ job_opened = <<>>
    /\ job_mkdir = "none"
    /\ job_files = <<>>
    /\ job_exc = "none"

JobInit ==
    /\ job_listing \in SeqsUpTo(JobEntries, MaxFiles)
    /\ job_errors_dir \in {"absent", "dir", "file"}
    /\ job_writable \in BOOLEAN
    /\ job_idx = 0
    /\ job_pc = "listdir"
    /\ job_handles = {}
    /\ job_opened = <<>>
    /\ job_mkdir = "none"
    /\ job_files = [k \in JobFileKeys |-> AbsentFile]
    /\ job_exc = "none"

\* an exception leaves transform_file and, uncaught in transform_files, the job
Raise(exc) ==
    /\ job_handles' = ExitWith(job_handles)
    /\ job_exc' = exc
    /\ job_pc' = "raised"

\* lines 97-98: list the directory and take its first entry, if any
ListDir ==
    /\ job_pc = "listdir"
    /\ IF job_listing = <<>>
       THEN job_pc' = "done" /\ job_idx' = 0
       ELSE job_pc' = "makedirs" /\ job_idx' = 1
    /\ UNCHANGED <<job_listing, job_errors_dir, job_writable, job_handles, job_opened,
                   job_mkdir, job_files, job_exc>>
    /\ UNCHANGED <<dateVars, csvVars, augVars>>

\* lines 73-81
Makedirs ==
    /\ job_pc = "makedirs"
    /\ LET r == makedirs(job_errors_dir, job_writable) IN
       /\ job_mkdir' = r.raised
       /\ job_errors_dir' = r.errors_dir
       /\ IF AfterMakedirs(r.raised, r.errors_dir) = "raised"
          THEN Raise(r.raised)
          ELSE /\ job_pc' = "open_in"
               /\ UNCHANGED <<job_handles, job_exc>>
    /\ UNCHANGED <<job_listing, job_writable, job_idx, job_opened, job_files>>
    /\ UNCHANGED <<dateVars, csvVars, augVars>>

\* lines 83-84: open(file_path, 'r')
OpenIn ==
    /\ job_pc = "open_in"
    /\ IF job_listing[job_idx].kind = "unreadable"
       THEN /\ Raise("OSError")
            /\ UNCHANGED job_opened
       ELSE /\ job_handles' = job_handles \cup {"in_fp"}
            /\ job_opened' = Append(job_opened, <<job_idx, "in_fp">>)
            /\ job_pc' = "open_out"
            /\ UNCHANGED job_exc
    /\ UNCHANGED <<job_listing, job_errors_dir, job_writable, job_idx, job_mkdir,
                   job_files>>
    /\ UNCHANGED <<dateVars, csvVars, augVars>>

\* lines 84-85: open(out_file_name, 'w'), which creates the file
OpenOut ==
    /\ job_pc = "open_out"
    /\ IF ~job_writable
       THEN /\ Raise("PermissionError")
            /\ UNCHANGED <<job_opened, job_files>>
       ELSE /\ job_handles' = job_handles \cup {"out_fp"}
            /\ job_opened' = Append(job_opened, <<job_idx, "out_fp">>)
            /\ job_files' = [job_files EXCEPT ![<<job_idx, "out">>] = EmptyFile]
            /\ job_pc' = "open_err"
            /\ UNCHANGED job_exc
    /\ UNCHANGED <<job_listing, job_errors_dir, job_writable, job_idx, job_mkdir>>
    /\ UNCHANGED <<dateVars, csvVars, augVars>>

\* lines 85-86: open(err_file_name, 'w'), a file under err_dir
OpenErr ==
    /\ job_pc = "open_err"
    /\ IF job_errors_dir # "dir"
       THEN /\ Raise("NotADirectoryError")
            /\ UNCHANGED <<job_opened, job_files>>
       ELSE /\ job_handles' = job_handles \cup {"err_fp"}
            /\ job_opened' = Append(job_opened, <<job_idx, "err_fp">>)
            /\ job_files' = [job_files EXCEPT ![<<job_idx, "err">>] = EmptyFile]
            /\ job_pc' = "transform"
            /\ UNCHANGED job_exc
    /\ UNCHANGED <<job_listing, job_errors_dir, job_writable, job_idx, job_mkdir>>
    /\ UNCHANGED <<dateVars, csvVars, augVars>>

\* line 87 and the end of the with statement, then lines 98-100: the next
\* entry; a file that stops decoding raises in the reader, before the header
\* or after some records
Transform ==
    /\ job_pc = "transform"
    /\ LET entry == job_listing[job_idx] IN
       IF entry.kind = "undecodable"
       THEN /\ \/ UNCHANGED job_files
               \/ \E n \in 0..Len(entry.data.rows) :
                     LET r == _transform_csv(entry.data.header,
                                             SubSeq(entry.data.rows, 1, n)) IN
                     job_files' = [job_files EXCEPT
                                      ![<<job_idx, "out">>] = [exists |-> TRUE, rows |-> r.out],
                                      ![<<job_idx, "err">>] = [exists |-> TRUE, rows |-> r.err]]
            /\ Raise("UnicodeDecodeError")
            /\ UNCHANGED job_idx
       ELSE /\ LET r == _transform_csv(entry.data.header, entry.data.rows) IN
               job_files' = [job_files EXCEPT
                                ![<<job_idx, "out">>] = [exists |-> TRUE, rows |-> r.out],
                                ![<<job_idx, "err">>] = [exists |-> TRUE, rows |-> r.err]]
            /\ job_handles' = {}
            /\ IF job_idx < Len(job_listing)
               THEN job_idx' = job_idx + 1 /\ job_pc' = "makedirs"
               ELSE job_idx' = job_idx /\ job_pc' = "done"
            /\ UNCHANGED job_exc
    /\ UNCHANGED <<job_listing, job_errors_dir, job_writable, job_opened, job_mkdir>>
    /\ UNCHANGED <<dateVars, csvVars, augVars>>

(***************************************************************************)
(* Properties of format_date_str.                                          *)
(***************************************************************************)
\* a string in canonical YYYY-MM-DD form
IsCanonicalDate(s) ==
    /\ Len(s) = 10
    /\ \A i \in {1, 2, 3, 4, 6, 7, 9, 10} : s[i] \in Digit
    /\ s[5] = "-"
    /\ s[8] = "-"

\* a string of exactly 8 digits
IsEightDigits(s) == Len(s) = 8 /\ \A i \in 1..8 : s[i] \in Digit

\* C4: format_date_str is a three-way function: a canonical YYYY-MM-DD string
\* is returned unchanged, a string of exactly 8 digits D is returned as
\* D[0:4]-D[4:6]-D[6:8], and every other string fails with the error that
\* carries the offending value.
C4_ThreeWay ==
    date_pc = "returned" =>
        IF IsCanonicalDate(date_str)
        THEN date_res = [ok |-> TRUE, value |-> date_str]
        ELSE IF IsEightDigits(date_str)
        THEN date_res = [ok |-> TRUE,
                         value |-> SubSeq(date_str, 1, 4) \o <<"-">>
                                   \o SubSeq(date_str, 5, 6) \o <<"-">>
                                   \o SubSeq(date_str, 7, 8)]
        ELSE date_res = [ok |-> FALSE, value |-> date_str]

(***************************************************************************)
(* Properties of _transform_csv.                                           *)
(***************************************************************************)
\* the date columns of the header
DateColumns(header) == {i \in 1..Len(header) : EndsWith(header[i], DATE_SUFFIX)}

\* the record cannot be normalized: it is too short for a date column, or a
\* date column's value is refused by format_date_str
RowFails(header, row) ==
    \E i \in DateColumns(header) : i > Len(row) \/ ~format_date_str(row[i]).ok

\* the record with every date column normalized and nothing else changed
NormalizedRow(header, row) ==
    [i \in 1..Len(row) |->
        IF i \in DateColumns(header) THEN format_date_str(row[i]).value ELSE row[i]]

RECURSIVE SurvivingRows(_, _)
\* the normalized forms of the records that normalize, in input order
SurvivingRows(header, rows) ==
    IF rows = <<>> THEN <<>>
    ELSE (IF RowFails(header, Head(rows)) THEN <<>>
          ELSE <<NormalizedRow(header, Head(rows))>>)
         \o SurvivingRows(header, Tail(rows))

RECURSIVE FailingRows(_, _)
\* the records that do not normalize, as read, in input order
FailingRows(header, rows) ==
    IF rows = <<>> THEN <<>>
    ELSE (IF RowFails(header, Head(rows)) THEN <<Head(rows)>> ELSE <<>>)
         \o FailingRows(header, Tail(rows))

\* C1: after the header, and so when the pass finishes, the records written
\* to the output (header excluded) plus the messages written to the error
\* stream number as many as the input records read.
C1_RowsAccounted ==
    csv_pc \in {"rows", "done"} =>
        (Len(csv_out) - 1) + Len(csv_err) = Len(csv_in)

\* a finished pass that read an empty record, a short record or a bad date,
\* and wrote both an output record and an error message
C1_Witness ==
    /\ csv_pc = "done"
    /\ \E k \in 1..Len(csv_in) : Len(csv_in[k]) < Len(csv_header)
    /\ Len(csv_out) >= 2
    /\ Len(csv_err) >= 1

\* C2: a record that fails to normalize, or is too short for a date column,
\* is never written and does not stop the pass: the output is the unmodified
\* header followed by exactly the records that normalize, in input order,
\* date columns normalized and every other field unchanged.
C2_OutputIsSurvivors ==
    csv_pc \in {"rows", "done"} =>
        csv_out = <<csv_header>> \o SurvivingRows(csv_header, csv_in)

\* a finished pass in which a failing record came before a record that was
\* written with a date column rewritten
C2_Witness ==
    /\ csv_pc = "done"
    /\ Len(csv_in) >= 2
    /\ RowFails(csv_header, csv_in[1])
    /\ ~RowFails(csv_header, csv_in[2])
    /\ Len(csv_out) = 2
    /\ csv_out[2] # csv_in[2]

\* C3: the message written for a diverted record holds the raw record, its
\* fields exactly as read, whichever date column is the first to fail.
C3_ErrorHoldsRawRecord ==
    LET failing == FailingRows(csv_header, csv_in) IN
    /\ Len(csv_err) = Len(failing)
    /\ \A k \in 1..Len(csv_err) : csv_err[k].row = failing[k]

(***************************************************************************)
(* Properties of append_vocabulary and append_concepts.                    *)
(***************************************************************************)
\* a row without its line terminator
Record(row) ==
    IF row # <<>> /\ row[Len(row)] = "\n" THEN SubSeq(row, 1, Len(row) - 1) ELSE row

\* the records of a file, in order
Records(text) == [k \in 1..Len(Lines(text)) |-> Record(Lines(text)[k])]

\* the record holds a reserved vocabulary id somewhere in its text
HasReservedId(s) == Contains(s, AOU_GEN_ID) \/ Contains(s, AOU_CUSTOM_ID)

RECURSIVE Unreserved(_)
\* the elements that hold no reserved vocabulary id, in order
Unreserved(rows) ==
    IF rows = <<>> THEN <<>>
    ELSE (IF HasReservedId(Head(rows)) THEN <<>> ELSE <<Head(rows)>>)
         \o Unreserved(Tail(rows))

\* the row of a reserved vocabulary id whose version field is the fingerprint
ReservedRow(vocab_id, version) ==
    LET t == VOCABULARY_UPDATES(vocab_id) IN
    t[1] \o DELIMITER \o t[2] \o DELIMITER \o t[3] \o DELIMITER \o version
         \o DELIMITER \o t[5]

\* C5: the output of append_vocabulary is made of the input records that hold
\* no reserved vocabulary id, unchanged and in input order, followed by two
\* records of their own: the general row, then the custom row, each with the
\* current fingerprint as its version, whether or not the input's last record
\* ends with a line terminator.
C5_SurvivorsThenTwoRows ==
    \A k \in 1..Len(voc_runs) :
        LET r == voc_runs[k] IN
        Records(r.out) = Unreserved(Records(r.in))
                         \o <<ReservedRow(AOU_GEN_ID, r.version),
                              ReservedRow(AOU_CUSTOM_ID, r.version)>>

\* C6: with the resource directory unchanged, append_vocabulary on the output
\* of the previous call writes the same content again.
C6_SecondRunSameContent ==
    \A k \in 1..(Len(voc_runs) - 1) :
        (/\ voc_runs[k + 1].in = voc_runs[k].out
         /\ voc_runs[k + 1].version = voc_runs[k].version)
        => voc_runs[k + 1].out = voc_runs[k].out

\* the part of the append_concepts output written before the custom concepts
ConceptCopy == SubSeq(con_out, 1, con_block_start)

\* C7: the part of the append_concepts output that precedes the appended
\* custom-concept block holds no reserved vocabulary id: it is made of the
\* input rows that hold none, unchanged and in input order.
C7_NoReservedIdBeforeBlock ==
    con_pc \in {"returned", "raised"} =>
        /\ ~HasReservedId(ConceptCopy)
        /\ \A k \in 1..Len(Lines(ConceptCopy)) : ~HasReservedId(Lines(ConceptCopy)[k])
        /\ ConceptCopy = Flatten(Unreserved(Lines(con_in)))

\* a finished call whose input held a row with the general id, a row with the
\* custom id and a row with neither, and which appended custom concepts
C7_Witness ==
    /\ con_pc = "returned"
    /\ \E k \in 1..Len(Lines(con_in)) : Contains(Lines(con_in)[k], AOU_GEN_ID)
    /\ \E k \in 1..Len(Lines(con_in)) : Contains(Lines(con_in)[k], AOU_CUSTOM_ID)
    /\ con_block_start > 0
    /\ Len(con_out) > con_block_start

(***************************************************************************)
(* Properties of add_aou_vocabs.                                           *)
(***************************************************************************)
\* an entry's base name, extension stripped and case ignored, is the name
HasEntryNamed(entries, wanted) ==
    \E k \in 1..Len(entries) : splitext_root(lower(entries[k].name)) = wanted

\* C8: on a directory that lacks an entry named concept, or one named
\* vocabulary, add_aou_vocabs fails with the not-found error and writes
\* nothing: neither append_concepts nor append_vocabulary is called, even
\* when the other file is there.
C8_MissingFileWritesNothing ==
    (/\ aou_pc = "returned"
     /\ ~(HasEntryNamed(in_dir, CONCEPT) /\ HasEntryNamed(in_dir, VOCABULARY)))
    => /\ aou_result = "IOError"
       /\ aou_calls = <<>>
       /\ out_dir = {}

\* a call on a directory that holds a concept file and no vocabulary file
C8_Witness ==
    /\ aou_pc = "returned"
    /\ HasEntryNamed(in_dir, CONCEPT)
    /\ ~HasEntryNamed(in_dir, VOCABULARY)
    /\ Len(in_dir) >= 2
    /\ aou_result = "IOError"

(***************************************************************************)
(* Properties of transform_file and transform_files.                       *)
(***************************************************************************)
\* the files of the entry that have been opened
OpenedOf(k) == {job_opened[i][2] : i \in {j \in 1..Len(job_opened) : job_opened[j][1] = k}}

\* os.makedirs failed for the current entry, and not because the directory
\* was already there
MakedirsFailedOtherwise ==
    /\ job_pc \notin {"listdir", "makedirs"}
    /\ job_idx >= 1
    /\ job_mkdir # "none"
    /\ ~(job_mkdir = "FileExistsError" /\ job_errors_dir = "dir")

\* C9: creating the errors subdirectory passes silently when the directory is
\* already there, and any other failure to create it is fatal: the job stops
\* there, before the input, output or error file of the entry is opened and
\* before an output file is created or truncated.
C9_OtherMakedirsFailureFatal ==
    MakedirsFailedOtherwise =>
        /\ job_pc = "raised"
        /\ OpenedOf(job_idx) = {}
        /\ ~job_files[<<job_idx, "out">>].exists
        /\ ~job_files[<<job_idx, "err">>].exists

\* the entry fails at the level of the file in the state the directories are in
FileLevelFailure(k) ==
    \/ job_listing[k].kind \in {"unreadable", "undecodable"}
    \/ ~job_writable
    \/ job_errors_dir # "dir"

\* the output and error files transform_file leaves for a csv entry
CompletedFiles(k) ==
    LET d == job_listing[k].data IN
    /\ job_files[<<k, "out">>] = [exists |-> TRUE, rows |-> _transform_csv(d.header, d.rows).out]
    /\ job_files[<<k, "err">>] = [exists |-> TRUE, rows |-> _transform_csv(d.header, d.rows).err]

\* C10: transform_files is fail-fast. Entries are processed one at a time in
\* listing order; when transform_file fails on an entry at the level of the
\* file the failure reaches the caller, no later entry is processed, the
\* outputs of the entries completed before remain, and the three file
\* objects of the failing entry are released; records that fail inside a
\* file never stop the batch.
C10_FailFast ==
    /\ \A i, j \in 1..Len(job_opened) : i < j => job_opened[i][1] <= job_opened[j][1]
    /\ \A k \in 1..Len(job_listing) : k > job_idx => OpenedOf(k) = {}
    /\ job_pc = "raised" =>
          /\ job_exc # "none"
          /\ job_handles = {}
          /\ FileLevelFailure(job_idx)
          /\ \A k \in 1..(job_idx - 1) : CompletedFiles(k)
          /\ \A k \in (job_idx + 1)..Len(job_listing) :
                /\ OpenedOf(k) = {}
                /\ job_files[<<k, "out">>] = AbsentFile
                /\ job_files[<<k, "err">>] = AbsentFile
    /\ job_pc = "done" =>
          /\ job_exc = "none"
          /\ job_handles = {}
          /\ \A k \in 1..Len(job_listing) : CompletedFiles(k)

\* a batch stopped on its second entry with files of that entry opened, after
\* a first entry that held failing records and was completed
C10_Witness ==
    /\ job_pc = "raised"
    /\ job_idx = 2
    /\ Len(job_listing) >= 2
    /\ OpenedOf(2) # {}
    /\ job_listing[1].data = MixedCsv
    /\ job_files[<<1, "err">>].rows # <<>>
    /\ job_files[<<1, "out">>].exists

(***************************************************************************)
(* Specifications.                                                         *)
(***************************************************************************)
InitDate == DateInit /\ CsvIdle /\ AugIdle /\ JobIdle
NextDate == FormatDate
SpecDate == InitDate /\ [][NextDate]_vars

InitCsv == CsvInit /\ DateIdle /\ AugIdle /\ JobIdle
NextCsv == CsvHeader \/ CsvRow \/ CsvEnd
SpecCsv == InitCsv /\ [][NextCsv]_vars

InitVocab == VocInit /\ ConIdle /\ AddIdle /\ DateIdle /\ CsvIdle /\ JobIdle
NextVocab == AppendVocabulary \/ ChangeResources
SpecVocab == InitVocab /\ [][NextVocab]_vars

InitConcept == ConInit /\ VocIdle /\ AddIdle /\ DateIdle /\ CsvIdle /\ JobIdle
NextConcept == AppendConcepts
SpecConcept == InitConcept /\ [][NextConcept]_vars

InitAdd == AddInit /\ VocIdle /\ DateIdle /\ CsvIdle /\ JobIdle
NextAdd == AddAouVocabs
SpecAdd == InitAdd /\ [][NextAdd]_vars

InitFiles == JobInit /\ DateIdle /\ CsvIdle /\ AugIdle
NextFiles == ListDir \/ Makedirs \/ OpenIn \/ OpenOut \/ OpenErr \/ Transform
SpecFiles == InitFiles /\ [][NextFiles]_vars

Init == InitDate \/ InitCsv \/ InitVocab \/ InitConcept \/ InitAdd \/ InitFiles
Next == NextDate \/ NextCsv \/ NextVocab \/ NextConcept \/ NextAdd \/ NextFiles
Spec == Init /\ [][Next]_vars

====
